---- MODULE Spec2Model ----
(***************************************************************************)
(* A model of the natours server: the Express middleware stack of app.js   *)
(* (requests walking the registered layers, several in flight at once),    *)
(* the process supervisor of server.js (listening socket, connections,     *)
(* database connection, signal handlers) and the query parser feeding the  *)
(* parameter-pollution guard.                                              *)
(*                                                                         *)
(* Three specifications share the module:                                  *)
(*   Spec     the middleware stack and the rate limiter's store            *)
(*   SpecSrv  the process supervisor (FairSrv adds the event loop's        *)
(*            fairness)                                                    *)
(*   SpecHpp  query-string parsing followed by hpp                         *)
(***************************************************************************)
EXTENDS Integers, Sequences, FiniteSets, TLC

VARIABLES
  \* ---- middleware stack (app.js) ----
  hits,       \* rate limiter store: client IP -> requests counted this window
  sent,       \* history: client IP -> /api requests sent this window
  pre,        \* history: client IP -> of those, the OPTIONS requests
  req,        \* slot -> the request handled there, or NoReq
  pc,         \* slot -> index in Stack of its layer about to run; 0 = none
  trace,      \* slot -> the layers that ran on its request, in order
  err,        \* slot -> the fault handed to next(err), or NoErr
  res,        \* slot -> the response sent for its request, or NoRes
  io,         \* slot -> "none" | "wait" (parked on I/O) | "done" (I/O back)
  running,    \* the slot whose callback is on the JavaScript stack, 0 = none
  nodeEnv,    \* process.env.NODE_ENV
  \* ---- process supervisor (server.js) ----
  proc,       \* "running" | "exited"
  exitCode,   \* exit code once exited, -1 before
  exitBy,     \* who ended the process: the handler calling process.exit, or
              \* "node"; "none" before
  exitOn,     \* the event whose handling ended the process, "none" before
  db,         \* "connecting" | "connected" | "failed"
  handle,     \* TRUE while the listening socket is open
  conn,       \* connection -> "new" | "busy" | "idle" | "closing" | "ended"
              \*               | "refused"
  served,     \* connection -> requests answered on it
  closeCbs,   \* callbacks registered once('close'), in order
  ticks,      \* scheduled emissions of the server's 'close' event
  rejQ,       \* reasons of the unhandled rejections waiting for the handler
  nClose,     \* calls of server.close so far
  nTerm,      \* SIGTERM handler runs so far
  nRej,       \* rejections raised so far, the connection attempt's aside
  atClose,    \* history: requests in flight when the rejection handler ran
  closeIdle,  \* whether this Node's server.close ends idle connections
  \* ---- query parsing and hpp ----
  qstr,       \* the query string: its parameters [name, sub, val] in order
  query,      \* req.query: its entries [name, kind, v, sub] in key order
  queryPolluted, \* req.queryPolluted, likewise
  qpc         \* "idle" | "received" | "parsed" | "done"

appVars == <<hits, sent, pre, req, pc, trace, err, res, io, running, nodeEnv>>
srvVars == <<proc, exitCode, exitBy, exitOn, db, handle, conn, served,
             closeCbs, ticks, rejQ, nClose, nTerm, nRej, atClose, closeIdle>>
hppVars == <<qstr, query, queryPolluted, qpc>>
vars == <<appVars, srvVars, hppVars>>

(***************************************************************************)
(* Bounds of the model.                                                    *)
(***************************************************************************)
\* requests beyond the quota a client sends in one window
MaxOver == 2
\* at most one client sends more than MaxLight /api requests in a window
MaxLight == 1
\* OPTIONS requests under /api sent in one window, all clients together
MaxPre == 1
\* requests in the middleware stack at once
MaxInFlight == 2
\* connections the clients attempt
MaxConns == 2
\* requests sent on one connection
MaxReqs == 2
\* parameters of a query string
MaxParams == 3
\* SIGTERM signals delivered
MaxTerm == 2
\* promises rejected without a handler, the connection attempt's aside
MaxRej == 1

IPs == {"10.0.0.1", "10.0.0.2"}

Slots == 1..MaxInFlight

(***************************************************************************)
(* Requests.  A path is its sequence of segments; a body is what was sent. *)
(* n is the limiter's count of the request, cur whether that count belongs *)
(* to the current window, ord its place among the client's requests under  *)
(* /api in the order sent.                                                 *)
(***************************************************************************)
NoReq == [method |-> "-", path |-> <<>>, ip |-> "-", ctype |-> "none",
          size |-> "none", body |-> "unread", n |-> 0, cur |-> FALSE,
          ord |-> 0]
\* A message: fixed text around the URL it quotes (none: the empty path).
Msg(text) == [pre |-> text, url |-> <<>>, post |-> ""]
NoErr == [statusCode |-> 0, message |-> Msg(""), isOperational |-> FALSE]
NoRes == [status |-> 0, message |-> Msg(""), by |-> "-"]

IsPrefix(p, q) == Len(p) <= Len(q) /\ SubSeq(q, 1, Len(p)) = p

(***************************************************************************)
(* app.js: the configuration of the layers.                                *)
(***************************************************************************)
\* rateLimit({ max: 100, ... })
max == 100
\* rateLimit({ ..., message: ... })
message == "Too many requests from this IP, please try again in an hour!"

\* A registration order with the body parsers ahead of the webhook route.
StackJsonFirst ==
  << "cors", "static", "helmet", "morgan", "limiter", "json", "urlencoded",
     "raw", "webhookCheckout", "cookieParser", "mongoSanitize", "xss",
     "hpp", "compression", "requestTime", "viewRouter", "tourRouter",
     "userRouter", "reviewRouter", "bookingRouter", "notFound",
     "globalErrorHandler" >>

\* A registration order with the sanitizers behind the routers.
StackSanitizeLate ==
  << "cors", "static", "helmet", "morgan", "limiter", "raw",
     "webhookCheckout", "json", "urlencoded", "cookieParser", "hpp",
     "compression", "requestTime", "viewRouter", "tourRouter",
     "userRouter", "reviewRouter", "bookingRouter", "mongoSanitize", "xss",
     "notFound", "globalErrorHandler" >>

\* The layers in registration order.  app.options('*', cors()) (line 52) is
\* registered after app.use(cors()), which ends every OPTIONS request, so it
\* never runs and is no layer here.
Stack == << "cors", "static", "helmet", "morgan", "limiter", "raw",
            "webhookCheckout",
            "json", "urlencoded", "cookieParser", "mongoSanitize", "xss",
            "hpp", "compression", "requestTime", "viewRouter", "tourRouter",
            "userRouter", "reviewRouter", "bookingRouter", "notFound",
            "globalErrorHandler" >>

\* The mount path of each layer registered with one.
Mount(layer) ==
  CASE layer = "limiter"         -> <<"api">>
    [] layer = "raw"             -> <<"webhook-checkout">>
    [] layer = "webhookCheckout" -> <<"webhook-checkout">>
    [] layer = "tourRouter"      -> <<"api", "v1", "tours">>
    [] layer = "userRouter"      -> <<"api", "v1", "users">>
    [] layer = "reviewRouter"    -> <<"api", "v1", "reviews">>
    [] layer = "bookingRouter"   -> <<"api", "v1", "bookings">>
    [] OTHER                     -> <<>>

\* Files under public/.
StaticAssets == { <<"css", "style.css">> }

\* The routes the routers define, as <<method, path>>.
Routes(layer) ==
  CASE layer = "viewRouter"    -> { <<"GET", <<>>>> }
    [] layer = "tourRouter"    -> { <<"GET", <<"api", "v1", "tours">>>>,
                                    <<"POST", <<"api", "v1", "tours">>>> }
    [] layer = "userRouter"    -> { <<"GET", <<"api", "v1", "users">>>> }
    [] layer = "reviewRouter"  -> { <<"GET", <<"api", "v1", "reviews">>>> }
    [] layer = "bookingRouter" -> { <<"GET", <<"api", "v1", "bookings">>>> }
    [] OTHER                   -> {}

Routers == {"viewRouter", "tourRouter", "userRouter", "reviewRouter",
            "bookingRouter"}
RouteHandlers == Routers \cup {"webhookCheckout"}

\* Whether Express hands the request to the layer: an error skips to the
\* error-handling middleware; app.use(path, ...) matches the path prefix for
\* every method; app.post(path, ...) matches POST and the exact path; morgan
\* is registered only when NODE_ENV is 'development'.
Applies(layer, r, e) ==
  IF e # NoErr THEN layer = "globalErrorHandler"
  ELSE CASE layer = "globalErrorHandler" -> FALSE
         [] layer = "morgan" -> nodeEnv = "development"
         [] layer \in {"raw", "webhookCheckout"} ->
              r.method = "POST" /\ r.path = Mount(layer)
         [] OTHER -> IsPrefix(Mount(layer), r.path)

\* next(): the first later layer that applies (0: none is left).
NextLayer(i, r, e) ==
  LET later == { j \in (i + 1)..Len(Stack) : Applies(Stack[j], r, e) }
  IN IF later = {} THEN 0
     ELSE CHOOSE j \in later : \A k \in later : j <= k

\* JavaScript runs one callback at a time, to its end: the layers of a
\* request call each other through next() within one callback until one of
\* them waits for I/O or the response is sent.  The layer about to run is
\* that of the request whose callback is running.
Current(layer) ==
  running # 0 /\ pc[running] > 0 /\ Stack[pc[running]] = layer

\* The layer has run on the request of slot s.
Ran(s, layer) == \E i \in 1..Len(trace[s]) : trace[s][i] = layer

\* The trace once the layer has been entered: a layer back from I/O was
\* entered before.
Entered(layer) ==
  IF io[running] = "done" THEN trace[running]
  ELSE Append(trace[running], layer)

\* The layer calls next().
Pass(layer, r) ==
  /\ req' = [req EXCEPT ![running] = r]
  /\ pc' = [pc EXCEPT ![running] = NextLayer(@, r, NoErr)]
  /\ trace' = [trace EXCEPT ![running] = Entered(layer)]
  /\ io' = [io EXCEPT ![running] = "none"]
  /\ UNCHANGED <<err, res, running, nodeEnv, srvVars, hppVars>>

\* The layer calls next(e).
Fail(layer, e) ==
  /\ err' = [err EXCEPT ![running] = e]
  /\ pc' = [pc EXCEPT ![running] = NextLayer(@, req[running], e)]
  /\ trace' = [trace EXCEPT ![running] = Entered(layer)]
  /\ io' = [io EXCEPT ![running] = "none"]
  /\ UNCHANGED <<req, res, running, nodeEnv, srvVars, hppVars>>

\* The layer sends the response and ends the request; its callback returns.
Respond(layer, r, status, msg) ==
  /\ req' = [req EXCEPT ![running] = r]
  /\ res' = [res EXCEPT ![running] =
                          [status |-> status, message |-> msg, by |-> layer]]
  /\ pc' = [pc EXCEPT ![running] = 0]
  /\ trace' = [trace EXCEPT ![running] = Entered(layer)]
  /\ io' = [io EXCEPT ![running] = "none"]
  /\ running' = 0
  /\ UNCHANGED <<err, nodeEnv, srvVars, hppVars>>

\* The layer starts I/O (a file lookup, reading the body, a database query)
\* and returns; it goes on when the I/O calls back.
Wait(layer) ==
  /\ io' = [io EXCEPT ![running] = "wait"]
  /\ trace' = [trace EXCEPT ![running] = Entered(layer)]
  /\ running' = 0
  /\ UNCHANGED <<req, pc, err, res, nodeEnv, srvVars, hppVars>>

\* The slots whose request is being handled.
InFlight == { s \in Slots : pc[s] > 0 }

\* The records of the slots in flight; those of the requests answered are
\* dropped when the next callback starts.
Kept(f, none) == [t \in Slots |-> IF t \in InFlight THEN f[t] ELSE none]

\* The I/O of a parked request calls back, in whatever order it completes.
Resume(s) ==
  /\ running = 0 /\ io[s] = "wait"
  /\ io' = [io EXCEPT ![s] = "done"]
  /\ running' = s
  /\ req' = Kept(req, NoReq)
  /\ trace' = Kept(trace, <<>>)
  /\ err' = Kept(err, NoErr)
  /\ res' = Kept(res, NoRes)
  /\ UNCHANGED <<hits, sent, pre, pc, nodeEnv>>
  /\ UNCHANGED <<srvVars, hppVars>>

(***************************************************************************)
(* The requests the environment sends.                                     *)
(***************************************************************************)
Req(m, p, c, z) == [method |-> m, path |-> p, ctype |-> c, size |-> z]

\* size: "small" up to 10kb, "big" over 10kb up to 100kb, "huge" over 100kb
Requests ==
  { Req("GET", p, "none", "none") :
      p \in { <<"css", "style.css">>, <<>>, <<"api", "v1", "tours">>,
              <<"api", "v1", "users">>, <<"api", "v1", "reviews">>,
              <<"api", "v1", "bookings">>, <<"api", "nope">>, <<"nope">>,
              <<"webhook-checkout">> } }
  \cup { Req("OPTIONS", p, "none", "none") :
      p \in { <<"api", "v1", "tours">>, <<"nope">> } }
  \cup { Req("POST", <<"webhook-checkout">>, "json", z) :
      z \in {"small", "big", "huge"} }
  \cup { Req("POST", <<"webhook-checkout">>, "text", "small"),
         Req("POST", <<"api", "v1", "tours">>, "json", "small"),
         Req("POST", <<"api", "v1", "tours">>, "json", "big"),
         Req("POST", <<"api", "v1", "tours">>, "urlencoded", "small"),
         Req("POST", <<"nope">>, "json", "small"),
         Req("POST", <<"nope">>, "json", "big"),
         Req("DELETE", <<"nope">>, "none", "none") }

UnderApi(r) == IsPrefix(<<"api">>, r.path)

\* The requests sent at any load; the others are sent while no client has
\* sent more than MaxLight requests under /api in the window.
CoreRequests ==
  { Req("GET", <<"api", "v1", "tours">>, "none", "none"),
    Req("POST", <<"api", "v1", "tours">>, "json", "small"),
    Req("OPTIONS", <<"api", "v1", "tours">>, "none", "none") }

\* The request a client between MaxLight and the quota keeps sending.
Steady == Req("GET", <<"api", "v1", "tours">>, "none", "none")

Zero == [i \in IPs |-> 0]

RECURSIVE SumOver(_, _)
SumOver(f, S) ==
  IF S = {} THEN 0
  ELSE LET i == CHOOSE x \in S : TRUE IN f[i] + SumOver(f, S \ {i})
Total(f) == SumOver(f, DOMAIN f)

\* A client has sent the quota, or more.
Near(i) == sent[i] >= max

\* A request arrives while no callback is running, whether or not others
\* are in flight, and is handled in the lowest slot free.  The guards bound
\* the load: once a client is beyond MaxLight only core requests are sent;
\* between MaxLight and the quota a client sends the steady request, one at
\* a time, and no other client sends; a request counted in an earlier window
\* is answered before the next arrives; the client stays within MaxOver
\* requests of the quota, the window holds at most MaxPre OPTIONS requests
\* under /api, and at most one client is beyond MaxLight; a request outside
\* /api, whose handling reads no client address, comes from one client.
NewRequest(r, ip) ==
  /\ running = 0
  /\ Slots \ InFlight # {}
  /\ r \notin CoreRequests => \A j \in IPs : sent[j] <= MaxLight
  /\ \A s \in InFlight : req[s].n = 0 \/ req[s].cur
  /\ \A j \in IPs :
        sent[j] > MaxLight /\ ~Near(j) =>
           ip = j /\ InFlight = {} /\ r = Steady
  /\ IF UnderApi(r)
     THEN /\ sent[ip] < max + MaxOver
          /\ r.method = "OPTIONS" => Total(pre) < MaxPre
          /\ \A j \in IPs \ {ip} : sent[j] <= MaxLight \/ sent[ip] < MaxLight
          /\ sent' = [sent EXCEPT ![ip] = @ + 1]
          /\ pre' = [pre EXCEPT ![ip] = IF r.method = "OPTIONS" THEN @ + 1 ELSE @]
     ELSE /\ ip = CHOOSE i \in IPs : TRUE
          /\ UNCHANGED <<sent, pre>>
  /\ LET s == CHOOSE x \in Slots \ InFlight :
                 \A y \in Slots \ InFlight : x <= y
         new == [method |-> r.method, path |-> r.path, ip |-> ip,
                 ctype |-> r.ctype, size |-> r.size, body |-> "unread",
                 n |-> 0, cur |-> FALSE,
                 ord |-> IF UnderApi(r) THEN sent[ip] + 1 ELSE 0]
     IN /\ req' = [Kept(req, NoReq) EXCEPT ![s] = new]
        /\ pc' = [pc EXCEPT ![s] = NextLayer(0, r, NoErr)]
        /\ trace' = Kept(trace, <<>>)
        /\ err' = Kept(err, NoErr)
        /\ res' = Kept(res, NoRes)
        /\ running' = s
  /\ UNCHANGED <<hits, io, nodeEnv, srvVars, hppVars>>

(***************************************************************************)
(* The layers.                                                             *)
(***************************************************************************)
\* cors(): an OPTIONS request is a pre-flight, answered 204 and ended.
Cors ==
  /\ Current("cors")
  /\ IF req[running].method = "OPTIONS"
     THEN Respond("cors", req[running], 204, Msg(""))
     ELSE Pass("cors", req[running])
  /\ UNCHANGED <<hits, sent, pre>>

\* express.static: any method but GET and HEAD falls through at once; for a
\* GET or HEAD the file is looked up (fs.stat), and when the lookup calls
\* back a file under public/ is served, anything else falls through.
ServeStatic ==
  /\ Current("static")
  /\ IF req[running].method \notin {"GET", "HEAD"}
     THEN Pass("static", req[running])
     ELSE IF io[running] = "none"
     THEN Wait("static")
     ELSE IF req[running].path \in StaticAssets
     THEN Respond("static", req[running], 200, Msg(""))
     ELSE Pass("static", req[running])
  /\ UNCHANGED <<hits, sent, pre>>

Helmet ==
  /\ Current("helmet")
  /\ Pass("helmet", req[running])
  /\ UNCHANGED <<hits, sent, pre>>

\* morgan('dev')
Morgan ==
  /\ Current("morgan")
  /\ Pass("morgan", req[running])
  /\ UNCHANGED <<hits, sent, pre>>

\* The store's key of a request.
KeyOf(r) == r.ip

\* A limiter that refuses from the quota on, not beyond it.
ExceedsFromQuota(current) == current >= max

\* Whether the count of a request is over the quota.
Exceeds(current) == current > max

\* rateLimit: count the request for its key; over the quota, send 429 and
\* the message without calling next().
Limiter ==
  /\ Current("limiter")
  /\ LET key == KeyOf(req[running])
         current == hits[key] + 1
         r == [req[running] EXCEPT !.n = current, !.cur = TRUE]
     IN /\ hits' = [hits EXCEPT ![key] = current]
        /\ IF Exceeds(current)
           THEN Respond("limiter", r, 429, Msg(message))
           ELSE Pass("limiter", r)
  /\ UNCHANGED <<sent, pre>>

\* The requests under /api in flight that the limiter has not counted.
Uncounted == { s \in InFlight : UnderApi(req[s]) /\ ~Ran(s, "limiter") }

\* The store's timer: every windowMs all counts are reset.  The requests
\* under /api in flight that the limiter has not counted yet fall into the
\* new window, as its first requests, in the order they were sent.
ResetWindow ==
  /\ running = 0
  /\ hits' = Zero
  /\ sent' = [i \in IPs |->
                Cardinality({ s \in Uncounted : req[s].ip = i })]
  /\ pre' = Zero
  /\ req' = [s \in Slots |->
               IF s \in Uncounted
               THEN [req[s] EXCEPT !.ord =
                       Cardinality({ t \in Uncounted :
                                       /\ req[t].ip = req[s].ip
                                       /\ req[t].ord <= req[s].ord })]
               ELSE [req[s] EXCEPT !.cur = FALSE]]
  /\ UNCHANGED <<pc, trace, err, res, io, running, nodeEnv, srvVars, hppVars>>

\* body-parser's fault for a body over the limit.
TooLarge == [statusCode |-> 413, message |-> Msg("request entity too large"),
             isOperational |-> FALSE]

\* A body parser: skip a body already parsed, a request without a body and
\* a content type other than its own; else read the body, and when it has
\* been read fail a body over the limit or populate req.body.
BodyParser(layer, type, accepted) ==
  /\ Current(layer)
  /\ IF req[running].body \in {"raw", "json", "urlencoded"}
     THEN Pass(layer, req[running])
     ELSE IF req[running].ctype # type
     THEN Pass(layer, [req[running] EXCEPT !.body = "empty"])
     ELSE IF io[running] = "none"
     THEN Wait(layer)
     ELSE IF req[running].size \notin accepted
     THEN Fail(layer, TooLarge)
     ELSE Pass(layer, [req[running] EXCEPT !.body = layer])
  /\ UNCHANGED <<hits, sent, pre>>

\* express.raw({ type: 'application/json' }), limit 100kb by default
RawParser == BodyParser("raw", "json", {"small", "big"})

\* bookingController.webhookCheckout
WebhookCheckout ==
  /\ Current("webhookCheckout")
  /\ Respond("webhookCheckout", req[running], 200, Msg(""))
  /\ UNCHANGED <<hits, sent, pre>>

\* express.json({ limit: '10kb' })
JsonParser == BodyParser("json", "json", {"small"})

\* express.urlencoded({ extended: true, limit: '10kb' })
UrlencodedParser == BodyParser("urlencoded", "urlencoded", {"small"})

\* A layer that changes nothing another layer or a claim reads.
Through(layer) ==
  /\ Current(layer)
  /\ Pass(layer, req[running])
  /\ UNCHANGED <<hits, sent, pre>>

CookieParser == Through("cookieParser")
MongoSanitize == Through("mongoSanitize")
XssClean == Through("xss")
HppLayer == Through("hpp")
Compression == Through("compression")
RequestTime == Through("requestTime")

\* A router: a route it defines is handled (its handler queries the
\* database and answers when the query calls back), else fall through.
Router(layer) ==
  /\ Current(layer)
  /\ IF <<req[running].method, req[running].path>> \notin Routes(layer)
     THEN Pass(layer, req[running])
     ELSE IF io[running] = "none"
     THEN Wait(layer)
     ELSE Respond(layer, req[running], 200, Msg(""))
  /\ UNCHANGED <<hits, sent, pre>>

ViewRouter == Router("viewRouter")
TourRouter == Router("tourRouter")
UserRouter == Router("userRouter")
ReviewRouter == Router("reviewRouter")
BookingRouter == Router("bookingRouter")

\* A not-found fault whose message leaves the URL out.
NotFoundErrorNoUrl(r) ==
  [statusCode |-> 404, message |-> Msg("Can't find this on this server!"),
   isOperational |-> TRUE]

\* new AppError(`Can't find ${req.originalUrl} on this server!`, 404)
NotFoundError(r) ==
  [statusCode |-> 404,
   message |-> [pre |-> "Can't find ", url |-> r.path,
                post |-> " on this server!"],
   isOperational |-> TRUE]

\* app.all('*', ...)
NotFound ==
  /\ Current("notFound")
  /\ Fail("notFound", NotFoundError(req[running]))
  /\ UNCHANGED <<hits, sent, pre>>

\* The error classifier: an operational fault keeps its status and message;
\* any other fault is answered 500 with a generic message, except in a
\* development configuration, which shows every fault as it is.
GlobalErrorHandler ==
  /\ Current("globalErrorHandler")
  /\ LET e == err[running]
     IN IF e.isOperational \/ nodeEnv = "development"
        THEN Respond("globalErrorHandler", req[running], e.statusCode,
                     e.message)
        ELSE Respond("globalErrorHandler", req[running], 500,
                     Msg("Something went wrong"))
  /\ UNCHANGED <<hits, sent, pre>>

(***************************************************************************)
(* Initial values of the three parts.                                      *)
(***************************************************************************)
AppInit ==
  /\ hits = Zero /\ sent = Zero /\ pre = Zero
  /\ req = [s \in Slots |-> NoReq] /\ pc = [s \in Slots |-> 0]
  /\ trace = [s \in Slots |-> <<>>] /\ err = [s \in Slots |-> NoErr]
  /\ res = [s \in Slots |-> NoRes] /\ io = [s \in Slots |-> "none"]
  /\ running = 0
  /\ nodeEnv \in {"development", "production"}

Conns == 1..MaxConns

\* server.js has run to its end: the connection attempt is under way and
\* the socket is listening.
SrvInit ==
  /\ proc = "running" /\ exitCode = -1 /\ exitBy = "none" /\ exitOn = "none"
  /\ db = "connecting" /\ handle = TRUE
  /\ conn = [c \in Conns |-> "new"] /\ served = [c \in Conns |-> 0]
  /\ closeCbs = <<>> /\ ticks = 0 /\ rejQ = <<>>
  /\ nClose = 0 /\ nTerm = 0 /\ nRej = 0 /\ atClose = {}
  /\ closeIdle \in BOOLEAN

HppInit ==
  /\ qstr = <<>> /\ query = <<>> /\ queryPolluted = <<>> /\ qpc = "idle"

Init == AppInit /\ SrvInit /\ closeIdle = FALSE /\ HppInit

Next ==
  \/ \E r \in Requests, ip \in IPs : NewRequest(r, ip)
  \/ \E s \in Slots : Resume(s)
  \/ ResetWindow
  \/ Cors \/ ServeStatic \/ Helmet \/ Morgan \/ Limiter
  \/ RawParser \/ WebhookCheckout
  \/ JsonParser \/ UrlencodedParser \/ CookieParser
  \/ MongoSanitize \/ XssClean \/ HppLayer
  \/ Compression \/ RequestTime
  \/ ViewRouter \/ TourRouter \/ UserRouter \/ ReviewRouter \/ BookingRouter
  \/ NotFound \/ GlobalErrorHandler

Spec == Init /\ [][Next]_vars

(***************************************************************************)
(* Properties of the middleware stack (Spec).                              *)
(***************************************************************************)
\* The response for the request of slot s has been sent.
Done(s) == req[s] # NoReq /\ pc[s] = 0 /\ res[s] # NoRes

Before(s, a, b) ==
  \E i, j \in 1..Len(trace[s]) :
     i < j /\ trace[s][i] = a /\ trace[s][j] = b

\* The limiter's refusal, sent before any route handler ran.
Refused(s) ==
  /\ res[s] = [status |-> 429, message |-> Msg(message), by |-> "limiter"]
  /\ \A h \in RouteHandlers : ~Ran(s, h)

Passed(s) == res[s].by # "limiter" /\ res[s].status # 429

IsWebhookPost(r) == r.method = "POST" /\ r.path = <<"webhook-checkout">>

\* No static asset and no route answers the method and path.
Unmatched(r) ==
  /\ ~(r.method \in {"GET", "HEAD"} /\ r.path \in StaticAssets)
  /\ \A l \in Routers : <<r.method, r.path>> \notin Routes(l)
  /\ ~IsWebhookPost(r)

\* The generic body parsers accept the body (or there is none for them).
BodyAccepted(r) == r.ctype \in {"json", "urlencoded"} => r.size = "small"

\* C3 as stated: of the requests a client sends under /api in one window,
\* whatever their method and in the order sent, the first 100 pass the
\* limiter and every later one is refused with 429 and the fixed message
\* before any route handler.
C3_Original ==
  \A s \in Slots :
     (Done(s) /\ UnderApi(req[s])) =>
        IF req[s].ord <= max THEN Passed(s) ELSE Refused(s)

\* C3 amended: the limiter counts the requests other than OPTIONS that a
\* client sends under /api in the order in which they reach it; within one
\* window each gets a count of its own, never more than the client has sent,
\* those counted up to 100 pass and every one counted after is refused with
\* 429 and the fixed message before any route handler.
C3_Amended ==
  /\ \A i \in IPs : hits[i] <= sent[i] - pre[i]
  /\ \A s \in Slots :
        req[s].cur =>
           /\ req[s].n \in 1..hits[req[s].ip]
           /\ \A t \in Slots \ {s} :
                 req[t].cur /\ req[t].ip = req[s].ip => req[t].n # req[s].n
  /\ \A s \in Slots :
        (Done(s) /\ UnderApi(req[s]) /\ req[s].method # "OPTIONS") =>
           /\ Ran(s, "limiter")
           /\ IF req[s].n <= max THEN Passed(s) ELSE Refused(s)

\* The 100th request sent is overtaken by the 101st and refused.
C3_Witness ==
  \E s \in Slots :
     /\ Done(s) /\ req[s].cur /\ req[s].n = max + 1 /\ Refused(s)
     /\ req[s].ord = max

\* C4 as stated: a request of any method to a path no static asset and no
\* route matches is answered 404 with a message containing the path.
C4_Original ==
  \A s \in Slots :
     (Done(s) /\ Unmatched(req[s])) =>
        /\ res[s].status = 404
        /\ res[s].message.pre = "Can't find "
        /\ res[s].message.url = req[s].path

\* C4 amended: a request of a method other than OPTIONS, within the rate
\* limiter's quota and with a body the body parsers accept, to a path no
\* static asset and no route matches is answered 404 by the error
\* classifier with the message "Can't find <path> on this server!".
C4_Amended ==
  \A s \in Slots :
     (/\ Done(s) /\ Unmatched(req[s]) /\ req[s].method # "OPTIONS"
      /\ req[s].n <= max /\ BodyAccepted(req[s])) =>
        res[s] = [status |-> 404,
                  message |-> [pre |-> "Can't find ", url |-> req[s].path,
                               post |-> " on this server!"],
                  by |-> "globalErrorHandler"]

C4_Witness ==
  \E s \in Slots :
     /\ Done(s) /\ req[s].method = "POST" /\ req[s].path = <<"nope">>
     /\ res[s].status = 404 /\ res[s].message.url = <<"nope">>

\* C5 as stated: every error response is produced by the error classifier;
\* no layer sends an error response of its own.
C5_Uniform ==
  \A s \in Slots :
     (Done(s) /\ res[s].status >= 400) => res[s].by = "globalErrorHandler"

\* What the webhook handler is dispatched with: the raw parser ran first, no
\* generic body parser ran, and req.body holds the bytes as sent.
RawDispatch(s) ==
  /\ Ran(s, "webhookCheckout")
  /\ Before(s, "raw", "webhookCheckout")
  /\ ~Ran(s, "json") /\ ~Ran(s, "urlencoded")
  /\ req[s].body = "raw"

\* C6 as stated: every POST /webhook-checkout is dispatched to the webhook
\* handler with the raw bytes as its body, ahead of the generic parsers.
C6_Original ==
  \A s \in Slots : (Done(s) /\ IsWebhookPost(req[s])) => RawDispatch(s)

\* C6 amended: a POST /webhook-checkout whose Content-Type is
\* application/json and whose body is within the raw parser's limit is
\* dispatched to the webhook handler with the raw bytes as its body, ahead
\* of the generic parsers.
C6_Amended ==
  \A s \in Slots :
     (/\ Done(s) /\ IsWebhookPost(req[s])
      /\ req[s].ctype = "json" /\ req[s].size \in {"small", "big"}) =>
        RawDispatch(s)

C6_Witness ==
  \E s \in Slots :
     Done(s) /\ IsWebhookPost(req[s]) /\ req[s].size = "big" /\ RawDispatch(s)

Sanitized(s, h) ==
  /\ Before(s, "mongoSanitize", h) /\ Before(s, "xss", h)
  /\ Before(s, "mongoSanitize", "xss")

\* C9 as stated: every route handler, the webhook handler included, runs
\* after the injection and XSS sanitizers, in that order.
C9_Original ==
  \A s \in Slots : \A h \in RouteHandlers : Ran(s, h) => Sanitized(s, h)

\* C9 amended: every router (the view router and the four resource routers)
\* runs after the injection and XSS sanitizers, in that order; the webhook
\* handler runs before them.
C9_Amended ==
  \A s \in Slots :
     /\ \A h \in Routers : Ran(s, h) => Sanitized(s, h)
     /\ Ran(s, "webhookCheckout") =>
          ~Ran(s, "mongoSanitize") /\ ~Ran(s, "xss")

C9_Witness ==
  \E s \in Slots :
     Done(s) /\ res[s].by = "tourRouter" /\ Sanitized(s, "tourRouter")

(***************************************************************************)
(* server.js: the process supervisor.                                      *)
(*                                                                         *)
(* Node keeps the process alive while a handle is open: the listening      *)
(* socket, a connection, the database connection (connecting or            *)
(* connected).  server.js never closes the database connection, and a      *)
(* failed connection attempt ends in process.exit(1), so the event loop    *)
(* never runs empty: the process ends only through process.exit or a       *)
(* fault inside the uncaughtException handler.                             *)
(*                                                                         *)
(* A connection carries one request at a time.  After the response it      *)
(* stays open for the next request (HTTP keep-alive, "idle") or is torn    *)
(* down ("closing"); it has ended once its socket's 'close' event has run. *)
(***************************************************************************)
Running == proc = "running"

\* What a promise is rejected with, or what is thrown: an object (an Error,
\* say), or null or undefined.
Values == {"object", "nullish"}

\* The connections whose socket is open.
Open == { c \in Conns : conn[c] \in {"busy", "idle", "closing"} }

\* The connections with a request in flight.
Busy == { c \in Conns : conn[c] = "busy" }

\* The request in flight on a connection: <<connection, ordinal on it>>.
Pending(c) == <<c, served[c] + 1>>

\* The process ends with `code`: `by` ended it, handling the event `on`.
Exit(code, by, on) ==
  /\ proc' = "exited"
  /\ exitCode' = code
  /\ exitBy' = by
  /\ exitOn' = on

\* The uncaughtException handler (lines 4-8) on the event `on`: it logs
\* err.name and err.message, then calls process.exit(1).  For a thrown null
\* or undefined the log itself throws, and Node ends the process with code 7
\* (a fault in the exception handler).
UncaughtException(thrown, on) ==
  IF thrown = "nullish"
  THEN Exit(7, "node", on)
  ELSE Exit(1, "uncaughtException", on)

\* server.close(cb): register cb for the 'close' event, close the listening
\* socket if it is open, tear down the idle connections where this Node
\* does so, and schedule the event if no connection is open.
ServerClose(cb) ==
  /\ closeCbs' = Append(closeCbs, cb)
  /\ handle' = FALSE
  /\ nClose' = nClose + 1
  /\ conn' = [c \in Conns |->
                IF closeIdle /\ conn[c] = "idle" THEN "closing" ELSE conn[c]]
  /\ ticks' = IF Open = {} THEN ticks + 1 ELSE ticks

\* mongoose.connect(...) resolves.
DbConnected ==
  /\ Running /\ db = "connecting"
  /\ db' = "connected"
  /\ UNCHANGED <<proc, exitCode, exitBy, exitOn, handle, conn, served,
                 closeCbs, ticks, rejQ, nClose, nTerm, nRej, atClose,
                 closeIdle>>
  /\ UNCHANGED <<appVars, hppVars>>

\* mongoose.connect(...) rejects, with an error object; .then() adds no
\* rejection handler, so the rejection is unhandled.
DbRejected ==
  /\ Running /\ db = "connecting"
  /\ db' = "failed"
  /\ rejQ' = Append(rejQ, "object")
  /\ UNCHANGED <<proc, exitCode, exitBy, exitOn, handle, conn, served,
                 closeCbs, ticks, nClose, nTerm, nRej, atClose, closeIdle>>
  /\ UNCHANGED <<appVars, hppVars>>

\* Some other promise is rejected without a handler.
Rejection(reason) ==
  /\ Running /\ nRej < MaxRej
  /\ nRej' = nRej + 1
  /\ rejQ' = Append(rejQ, reason)
  /\ UNCHANGED <<proc, exitCode, exitBy, exitOn, db, handle, conn, served,
                 closeCbs, ticks, nClose, nTerm, atClose, closeIdle>>
  /\ UNCHANGED <<appVars, hppVars>>

\* A client connects and sends a request: accepted while the socket listens.
Accept(c) ==
  /\ Running /\ handle
  /\ conn[c] = "new"
  /\ conn' = [conn EXCEPT ![c] = "busy"]
  /\ UNCHANGED <<proc, exitCode, exitBy, exitOn, db, handle, served,
                 closeCbs, ticks, rejQ, nClose, nTerm, nRej, atClose,
                 closeIdle>>
  /\ UNCHANGED <<appVars, hppVars>>

\* A client connects after the socket was closed: refused.
Refuse(c) ==
  /\ Running /\ ~handle
  /\ conn[c] = "new"
  /\ conn' = [conn EXCEPT ![c] = "refused"]
  /\ UNCHANGED <<proc, exitCode, exitBy, exitOn, db, handle, served,
                 closeCbs, ticks, rejQ, nClose, nTerm, nRej, atClose,
                 closeIdle>>
  /\ UNCHANGED <<appVars, hppVars>>

\* A client sends a further request on a connection kept alive; the server
\* handles it whether or not server.close has been called.
Request(c) ==
  /\ Running
  /\ conn[c] = "idle" /\ served[c] < MaxReqs
  /\ conn' = [conn EXCEPT ![c] = "busy"]
  /\ UNCHANGED <<proc, exitCode, exitBy, exitOn, db, handle, served,
                 closeCbs, ticks, rejQ, nClose, nTerm, nRej, atClose,
                 closeIdle>>
  /\ UNCHANGED <<appVars, hppVars>>

\* The response of a request in flight is sent; the connection is kept
\* alive, or torn down if the client asked for that.
Finish(c) ==
  /\ Running /\ conn[c] = "busy"
  /\ served' = [served EXCEPT ![c] = @ + 1]
  /\ \E keep \in BOOLEAN :
        conn' = [conn EXCEPT ![c] = IF keep THEN "idle" ELSE "closing"]
  /\ UNCHANGED <<proc, exitCode, exitBy, exitOn, db, handle,
                 closeCbs, ticks, rejQ, nClose, nTerm, nRej, atClose,
                 closeIdle>>
  /\ UNCHANGED <<appVars, hppVars>>

\* A connection without a request in flight ends (torn down, timed out
\* after keepAliveTimeout, or closed by the client): its socket's 'close'
\* event runs, and a closed server with no connection left schedules its
\* own 'close' event.
End(c) ==
  /\ Running /\ conn[c] \in {"idle", "closing"}
  /\ conn' = [conn EXCEPT ![c] = "ended"]
  /\ ticks' = IF ~handle /\ Open = {c} THEN ticks + 1 ELSE ticks
  /\ UNCHANGED <<proc, exitCode, exitBy, exitOn, db, handle, served,
                 closeCbs, rejQ, nClose, nTerm, nRej, atClose, closeIdle>>
  /\ UNCHANGED <<appVars, hppVars>>

\* The 'close' event: every registered callback runs once.  The rejection
\* handler's callback calls process.exit(1); the SIGTERM handler's logs.
EmitClose ==
  /\ Running /\ ticks > 0
  /\ ticks' = ticks - 1
  /\ closeCbs' = <<>>
  /\ IF \E i \in 1..Len(closeCbs) : closeCbs[i] = "exit"
     THEN Exit(1, "unhandledRejection", "unhandledRejection")
     ELSE UNCHANGED <<proc, exitCode, exitBy, exitOn>>
  /\ UNCHANGED <<db, handle, conn, served, rejQ, nClose, nTerm,
                 nRej, atClose, closeIdle>>
  /\ UNCHANGED <<appVars, hppVars>>

\* process.on('unhandledRejection', ...): log err.name and err.message, then
\* server.close with a callback that exits.  For a reason of null or
\* undefined the log throws a TypeError out of the handler: the
\* uncaughtException handler runs on it and server.close is never reached.
OnUnhandledRejection ==
  /\ Running /\ rejQ # <<>>
  /\ rejQ' = Tail(rejQ)
  /\ atClose' = atClose \cup { Pending(c) : c \in Busy }
  /\ IF Head(rejQ) = "nullish"
     THEN /\ UncaughtException("object", "unhandledRejection")
          /\ UNCHANGED <<handle, conn, closeCbs, ticks, nClose>>
     ELSE /\ ServerClose("exit")
          /\ UNCHANGED <<proc, exitCode, exitBy, exitOn>>
  /\ UNCHANGED <<db, served, nTerm, nRej, closeIdle>>
  /\ UNCHANGED <<appVars, hppVars>>

\* process.on('SIGTERM', ...)
OnSIGTERM ==
  /\ Running /\ nTerm < MaxTerm
  /\ nTerm' = nTerm + 1
  /\ ServerClose("log")
  /\ UNCHANGED <<proc, exitCode, exitBy, exitOn, db, served, rejQ,
                 nRej, atClose, closeIdle>>
  /\ UNCHANGED <<appVars, hppVars>>

\* process.on('uncaughtException', ...): something is thrown out of a
\* callback.
OnUncaughtException(thrown) ==
  /\ Running
  /\ UncaughtException(thrown, "uncaughtException")
  /\ UNCHANGED <<db, handle, conn, served, closeCbs, ticks, rejQ,
                 nClose, nTerm, nRej, atClose, closeIdle>>
  /\ UNCHANGED <<appVars, hppVars>>

InitSrv == AppInit /\ nodeEnv = "production" /\ SrvInit /\ HppInit

NextSrv ==
  \/ DbConnected \/ DbRejected
  \/ \E reason \in Values : Rejection(reason)
  \/ \E c \in Conns : Accept(c)
  \/ \E c \in Conns : Refuse(c)
  \/ \E c \in Conns : Request(c)
  \/ \E c \in Conns : Finish(c)
  \/ \E c \in Conns : End(c)
  \/ EmitClose
  \/ OnUnhandledRejection \/ OnSIGTERM
  \/ \E thrown \in Values : OnUncaughtException(thrown)

SpecSrv == InitSrv /\ [][NextSrv]_vars

\* The event loop runs every callback it has queued, every request in
\* flight is answered, and a connection without a request in flight ends
\* (at the latest when keepAliveTimeout expires).
FairSrv ==
  /\ SpecSrv
  /\ WF_vars(EmitClose)
  /\ WF_vars(OnUnhandledRejection)
  /\ \A c \in Conns : WF_vars(Finish(c))
  /\ \A c \in Conns : WF_vars(End(c))

(***************************************************************************)
(* Properties of the process supervisor (FairSrv).                         *)
(***************************************************************************)
\* The rejection handler has run at least once.
RejectionHandled ==
  nRej + (IF db = "failed" THEN 1 ELSE 0) > Len(rejQ)

\* Some fault other than the termination signal has occurred.
Faulted ==
  nRej > 0 \/ db = "failed" \/ exitOn = "uncaughtException"

\* C1 as stated: after SIGTERM the server accepts no new connection, no
\* request in flight is left unanswered, and (unless a fault intervenes) the
\* process eventually exits with code 0.
C1_GracefulExit ==
  /\ [](nTerm > 0 => ~handle)
  /\ [](nTerm > 0 /\ proc = "exited" /\ ~Faulted => Busy = {})
  /\ [](nTerm > 0 => <>((proc = "exited" /\ exitCode = 0) \/ Faulted))

\* C2 as stated: once an unhandled rejection is handled the server accepts
\* no new connection; the process ends on this path only with code 1 and
\* only after every request that was in flight has been answered, never
\* while one still is; and a pending rejection always leads to an exit with
\* code 1 (unless an uncaught exception ends the process first).
C2_DrainThenExit ==
  /\ [](RejectionHandled /\ Running => ~handle)
  /\ [](exitOn = "unhandledRejection" =>
          /\ exitCode = 1 /\ Busy = {}
          /\ \A q \in atClose : served[q[1]] >= q[2])
  /\ [](rejQ # <<>> =>
          <>(proc = "exited"
             /\ (exitCode = 1 \/ exitOn = "uncaughtException")))

\* C10 as stated: over any sequence of termination signals and unhandled
\* rejections the close of the listening socket is initiated at most once,
\* and the database connection is closed before the process ends.
C10_TornDownOnce ==
  /\ nClose <= 1
  /\ (proc = "exited" /\ exitOn # "uncaughtException") => db = "closed"

(***************************************************************************)
(* The query parser and hpp.                                               *)
(*                                                                         *)
(* A parameter name=val has sub "", a parameter name[sub]=val has that     *)
(* sub.  A parsed value is a string (kind "str", v = <<val>>), an array of *)
(* strings (kind "arr", v = the values in order) or an object (kind        *)
(* "obj", sub = its entries [k, kind, v] in key order).                    *)
(***************************************************************************)
Names == {"price", "difficulty", "sort"}
Subs == {"", "gte", "lte"}
Vals == {"easy", "hard"}

Param(n, b, v) == [name |-> n, sub |-> b, val |-> v]

\* No name is used both as name=val and as name[sub]=val.
Unmixed(q) ==
  \A i, j \in 1..Len(q) :
     q[i].name = q[j].name => ((q[i].sub = "") <=> (q[j].sub = ""))

Queries ==
  { q \in UNION { [1..n -> [name : Names, sub : Subs, val : Vals]] :
                    n \in 0..MaxParams } : Unmixed(q) }

\* GET /api/v1/tours?price[gte]=100&price[lte]=500&difficulty=easy&difficulty=hard
Example ==
  << Param("price", "gte", "100"), Param("price", "lte", "500"),
     Param("difficulty", "", "easy"), Param("difficulty", "", "hard") >>

\* qs, first pass: one entry per key as written, a repeated key's values
\* combined into an array in the order they appear.
RECURSIVE ParseValues(_)
ParseValues(q) ==
  IF q = <<>> THEN <<>>
  ELSE LET head == ParseValues(SubSeq(q, 1, Len(q) - 1))
           p == q[Len(q)]
           at == { i \in 1..Len(head) :
                     head[i].name = p.name /\ head[i].sub = p.sub }
       IN IF at = {}
          THEN Append(head, [name |-> p.name, sub |-> p.sub, kind |-> "str",
                             v |-> <<p.val>>])
          ELSE [i \in 1..Len(head) |->
                  IF i \in at
                  THEN [head[i] EXCEPT !.kind = "arr", !.v = Append(@, p.val)]
                  ELSE head[i]]

\* qs, second pass: each key becomes an entry of the result, name[sub] an
\* entry of the object under name.
RECURSIVE ParseKeys(_)
ParseKeys(flat) ==
  IF flat = <<>> THEN <<>>
  ELSE LET head == ParseKeys(SubSeq(flat, 1, Len(flat) - 1))
           e == flat[Len(flat)]
           at == { i \in 1..Len(head) : head[i].name = e.name }
           leaf == [k |-> e.sub, kind |-> e.kind, v |-> e.v]
       IN IF e.sub = ""
          THEN Append(head, [name |-> e.name, kind |-> e.kind, v |-> e.v,
                             sub |-> <<>>])
          ELSE IF at = {}
          THEN Append(head, [name |-> e.name, kind |-> "obj", v |-> <<>>,
                             sub |-> <<leaf>>])
          ELSE [i \in 1..Len(head) |->
                  IF i \in at
                  THEN [head[i] EXCEPT !.sub = Append(@, leaf)]
                  ELSE head[i]]

\* Express's query parser: req.query = qs.parse(querystring)
QueryParser ==
  /\ qpc = "received"
  /\ query' = ParseKeys(ParseValues(qstr))
  /\ qpc' = "parsed"
  /\ UNCHANGED <<qstr, queryPolluted>>
  /\ UNCHANGED <<appVars, srvVars>>

\* A whitelist that leaves difficulty out.
whitelistNoDifficulty ==
  {"duration", "ratingsQuantity", "ratingsAverage", "maxGroupSize", "price"}

\* hpp({ whitelist: [...] })
whitelist ==
  {"duration", "ratingsQuantity", "ratingsAverage", "maxGroupSize",
   "difficulty", "price"}

\* A guard that keeps the first value.
FirstValue(v) == <<v[1]>>

\* The value hpp keeps of an array: its last.
LastValue(v) == <<v[Len(v)]>>

\* hpp: the arrays among the top-level entries of req.query are put aside in
\* req.queryPolluted and replaced by the value kept; then the whitelisted
\* ones are restored and removed from req.queryPolluted.
Hpp ==
  /\ qpc = "parsed"
  /\ query' = [i \in 1..Len(query) |->
                 IF query[i].kind = "arr" /\ query[i].name \notin whitelist
                 THEN [query[i] EXCEPT !.kind = "str", !.v = LastValue(@)]
                 ELSE query[i]]
  /\ queryPolluted' =
       SelectSeq(query,
                 LAMBDA e : e.kind = "arr" /\ e.name \notin whitelist)
  /\ qpc' = "done"
  /\ UNCHANGED qstr
  /\ UNCHANGED <<appVars, srvVars>>

\* A request with some query string has arrived.
InitHpp ==
  /\ AppInit /\ nodeEnv = "production"
  /\ SrvInit /\ closeIdle = FALSE
  /\ qstr \in Queries \cup {Example}
  /\ query = <<>> /\ queryPolluted = <<>> /\ qpc = "received"

NextHpp == QueryParser \/ Hpp

SpecHpp == InitHpp /\ [][NextHpp]_vars

(***************************************************************************)
(* Properties of the parameter-pollution guard (SpecHpp).                  *)
(***************************************************************************)
\* The values given to `name` in the query string, in order.
ValuesOf(name) ==
  LET ps == SelectSeq(qstr, LAMBDA p : p.name = name)
  IN [i \in 1..Len(ps) |-> ps[i].val]

\* `name` occurs as one key more than once.
Repeated(name) ==
  \E i, j \in 1..Len(qstr) :
     i < j /\ qstr[i].name = name /\ qstr[j].name = name
           /\ qstr[i].sub = qstr[j].sub

\* `name` occurs only as name=val.
Plain(name) == \A i \in 1..Len(qstr) : qstr[i].name = name => qstr[i].sub = ""

\* req.query[name] is the value `val`.
Holds(name, val) ==
  /\ \E i \in 1..Len(query) : query[i].name = name
  /\ \A i \in 1..Len(query) :
       query[i].name = name =>
         query[i] = [name |-> name, kind |-> val.kind, v |-> val.v,
                     sub |-> val.sub]

Str(x) == [kind |-> "str", v |-> <<x>>, sub |-> <<>>]
Arr(xs) == [kind |-> "arr", v |-> xs, sub |-> <<>>]

\* The six names the guard is to let through as collections.
Listed ==
  {"duration", "ratingsQuantity", "ratingsAverage", "maxGroupSize",
   "difficulty", "price"}

\* What the guard is to leave of a repeated parameter.
Guarded(name) ==
  IF name \in Listed
  THEN Holds(name, Arr(ValuesOf(name)))
  ELSE Holds(name, Str(ValuesOf(name)[Len(ValuesOf(name))]))

\* The values req.query holds under `name`, an object's entry by entry.
RECURSIVE Flatten(_)
Flatten(sub) ==
  IF sub = <<>> THEN <<>>
  ELSE Flatten(SubSeq(sub, 1, Len(sub) - 1)) \o sub[Len(sub)].v

Range(xs) == { xs[i] : i \in 1..Len(xs) }

\* req.query[name] keeps every value given to `name`: as an array in the
\* order given, or as arrays under the sub-keys of an object.
KeepsAll(name) ==
  \/ Holds(name, Arr(ValuesOf(name)))
  \/ \E i \in 1..Len(query) :
        /\ query[i].name = name /\ query[i].kind = "obj"
        /\ Len(Flatten(query[i].sub)) = Len(ValuesOf(name))
        /\ Range(Flatten(query[i].sub)) = Range(ValuesOf(name))

\* C7 as stated: of every repeated parameter, however it is written, a
\* whitelisted one keeps all its values as a collection and any other keeps
\* only its last value, as a single value.
C7_Original ==
  qpc = "done" =>
     \A name \in Names :
        Repeated(name) =>
           IF name \in Listed THEN KeepsAll(name) ELSE Guarded(name)

\* C7 amended: of every parameter repeated as name=value (and never written
\* name[sub]=value), a whitelisted one keeps all its values as a collection,
\* in order, and any other keeps only its last value, as a single value.
C7_Amended ==
  qpc = "done" =>
     \A name \in Names : Repeated(name) /\ Plain(name) => Guarded(name)

C7_Witness ==
  /\ qpc = "done"
  /\ qstr = << Param("sort", "", "easy"), Param("price", "gte", "easy"),
               Param("sort", "", "hard") >>
  /\ Holds("sort", Str("hard"))
  /\ queryPolluted # <<>>

\* req.query.price of the example: { gte: '100', lte: '500' }
PriceRange ==
  [kind |-> "obj", v |-> <<>>,
   sub |-> << [k |-> "gte", kind |-> "str", v |-> <<"100">>],
              [k |-> "lte", kind |-> "str", v |-> <<"500">>] >>]

\* C8 as stated: for the example request price is kept as a range with gte
\* and lte, and the repeated difficulty collapses to "hard".
C8_Original ==
  (qpc = "done" /\ qstr = Example) =>
     Holds("price", PriceRange) /\ Holds("difficulty", Str("hard"))

\* C8 amended: for the example request price is kept as a range with gte
\* and lte, and the repeated difficulty, being whitelisted, is kept as the
\* collection of both its values, "easy" then "hard".
C8_Amended ==
  (qpc = "done" /\ qstr = Example) =>
     /\ Holds("price", PriceRange)
     /\ Holds("difficulty", Arr(<<"easy", "hard">>))

C8_Witness ==
  /\ qpc = "done" /\ qstr = Example
  /\ Holds("difficulty", Arr(<<"easy", "hard">>))
  /\ queryPolluted = <<>>

====
